---- MODULE Spec2Model ----
(***************************************************************************)
(* RoomHub: the data-access layer (data.py) and the request handlers of    *)
(* server.py that create, join and leave houses, over a pooled connection  *)
(* to a relational store.                                                  *)
(*                                                                         *)
(* The store is modelled at the level of SQL statements under READ         *)
(* COMMITTED: a statement sees the committed rows plus the pending writes  *)
(* of its own connection; a commit publishes the pending writes at once;   *)
(* returning a connection to the pool discards what is pending.  The       *)
(* schema is not part of the source, so the tables carry no declared       *)
(* constraint; instead any statement may raise, which covers a constraint  *)
(* violation or a lost connection.                                         *)
(*                                                                         *)
(* Strings are sequences of one-character strings.                         *)
(***************************************************************************)
EXTENDS Integers, Sequences, FiniteSets, TLC

\* ------------------------------------------------------------------ bounds
\* Largest value the houses.house_id sequence hands out.
MaxHouseId == 2
\* Requests served in one behaviour.
MaxRequests == 2
\* Most rows of one table with the same (user_id, house_id).
MaxDup == 1
\* Longest input string of the normalisation.
MaxLen == 4
\* Largest configured size of the connection pool (100 in the deployment).
MaxConn == 2

\* --------------------------------------------------------------- constants
\* user_home accepts names of at most this many characters (server.py:130).
NameLimit == 20

Users == {"u1", "u2"}
Workers == {"w1", "w2"}
WorkerNo == [w \in Workers |-> IF w = "w1" THEN 1 ELSE 2]
HouseIds == 1..MaxHouseId
Conns == 1..MaxConn
Keys == Users \X HouseIds

\* Characters of the modelled strings; WS are the ones str.strip() removes.
Alphabet == {"a", " ", "\t"}
WS == {" ", "\t"}

RECURSIVE StringsOfLen(_)
StringsOfLen(n) ==
    IF n = 0 THEN {<< >>}
    ELSE {Append(s, ch) : s \in StringsOfLen(n - 1), ch \in Alphabet}

Strings == UNION {StringsOfLen(n) : n \in 0..MaxLen}

\* ------------------------------------------------------- string functions
\* str.strip(): drop the whitespace at both ends.
RECURSIVE lstrip(_)
lstrip(s) ==
    IF s # << >> /\ Head(s) \in WS THEN lstrip(Tail(s)) ELSE s

RECURSIVE rstrip(_)
rstrip(s) ==
    IF s # << >> /\ s[Len(s)] \in WS THEN rstrip(SubSeq(s, 1, Len(s) - 1)) ELSE s

strip(s) == rstrip(lstrip(s))

\* A create_house whose inner loop is missing: no space is skipped.
SkipNothing(s, i) == i

\* The inner loop of create_house: from 0-based index i, advance while the
\* next character is a space.
RECURSIVE SkipSpaces(_, _)
SkipSpaces(s, i) ==
    IF i + 1 < Len(s) /\ s[i + 2] = " " THEN SkipSpaces(s, i + 1) ELSE i

\* The outer loop of create_house, i the 0-based index, acc formatted_name.
RECURSIVE FormatLoop(_, _, _)
FormatLoop(s, i, acc) ==
    IF i < Len(s)
    THEN IF s[i + 1] = " "
         THEN FormatLoop(s, SkipSpaces(s, i) + 1, Append(acc, " "))
         ELSE FormatLoop(s, i + 1, Append(acc, s[i + 1]))
    ELSE acc

\* The name create_house stores for house_name.
formatted_name(house_name) == FormatLoop(strip(house_name), 0, << >>)

\* Names submitted in the house-name form field: one inner space, a run of
\* two inner spaces, padded, and blank.
FormNames ==
    { <<"a", " ", "a">>, <<"a", " ", " ", "a">>, <<" ", "a">>, <<" ">> }

\* ------------------------------------------------------------------- state
VARIABLES
    houses,         \* committed rows of houses: [house_id, house_name]
    user_houses,    \* committed rows of user_houses, counted per (user, house)
    tasks,          \* committed rows of tasks, counted per (user_id, house_id)
    restrictions,   \* committed rows of restrictions, per (user_id, house_id)
    house_id_seq,   \* next value of the houses.house_id sequence
    maxconn,        \* the pool's configured maximum of connections
    used,           \* connections checked out of the pool
    tx,             \* per connection: the writes of its open transaction
    wk,             \* per worker: the request it serves and where it stands
    nreq,           \* requests started so far
    nIn,            \* normalisation: the input string
    nOut,           \* normalisation: formatted_name of the input
    nDone           \* normalisation: whether nOut has been computed

vars == << houses, user_houses, tasks, restrictions, house_id_seq, maxconn,
           used, tx, wk, nreq, nIn, nOut, nDone >>
db == << houses, user_houses, tasks, restrictions >>
normVars == << nIn, nOut, nDone >>

Zero == [k \in Keys |-> 0]
Plus(f, d) == [k \in Keys |-> f[k] + d[k]]

\* An idle connection's transaction: nothing pending.
NoTx == [hi |-> {}, hd |-> {}, m |-> Zero, t |-> Zero, r |-> Zero]

NoSnap == [houses |-> {}, user_houses |-> Zero, tasks |-> Zero,
           restrictions |-> Zero]
Snap == [houses |-> houses, user_houses |-> user_houses, tasks |-> tasks,
         restrictions |-> restrictions]

\* A worker between requests.
IdleWorker ==
    [status |-> "idle", route |-> "none", rpc |-> 0, op |-> "none",
     opc |-> "none", conn |-> 0, user_id |-> "none", house_id |-> 0,
     house_name |-> << >>, ret |-> FALSE, count |-> 0, removed |-> FALSE,
     old |-> NoSnap]

\* --------------------------------------------------- what a statement sees
\* Rows of houses visible to a statement on connection c.
VisHouses(c) == (houses \ tx[c].hd) \cup tx[c].hi
\* Rows of user_houses for key k visible on connection c.
VisMembers(c, k) == user_houses[k] + tx[c].m[k]
VisTasks(c, k) == tasks[k] + tx[c].t[k]
VisRestrictions(c, k) == restrictions[k] + tx[c].r[k]

RECURSIVE SumOver(_, _)
SumOver(f, S) ==
    IF S = {} THEN 0
    ELSE LET k == CHOOSE x \in S : TRUE IN f[k] + SumOver(f, S \ {k})

\* SELECT COUNT(*) FROM user_houses WHERE house_id = h, on connection c.
CountMembers(c, h) ==
    SumOver([k \in Keys |-> VisMembers(c, k)], {k \in Keys : k[2] = h})

\* Row locks: another open transaction has deleted rows the statement matches;
\* the statement waits until that transaction ends.
MemberLocked(c, k) == \E d \in used \ {c} : tx[d].m[k] < 0
TaskLocked(c, k) == \E d \in used \ {c} : tx[d].t[k] < 0
RestrictionLocked(c, k) == \E d \in used \ {c} : tx[d].r[k] < 0
HouseLocked(c, h) == \E d \in used \ {c} : \E row \in tx[d].hd : row.house_id = h

\* ------------------------------------------------------------------- reads
\* The read-only operations, on the committed state.
get_house_name_by_id(h) == {row.house_name : row \in {x \in houses : x.house_id = h}}
get_tasks_by_house_id(h) == {k \in Keys : k[2] = h /\ tasks[k] > 0}
get_restrictions(h) == {k \in Keys : k[2] = h /\ restrictions[k] > 0}
MembersOf(uh, h) == {u \in Users : uh[<<u, h>>] > 0}
RowsOf(uh, h) == SumOver(uh, {k \in Keys : k[2] = h})

\* -------------------------------------------------------------------- Init
\* The store after setup() and some earlier requests: either empty, or
\* holding house 1 (created as "a a" by u1) with or without u2 as a second
\* member, a task of u1 and a restriction of u1; no request in progress, no
\* connection out.
SeedName == <<"a", " ", "a">>

InitStore ==
    \/ /\ houses = {}
       /\ user_houses = Zero
       /\ tasks = Zero
       /\ restrictions = Zero
       /\ house_id_seq = 1
    \/ /\ houses = {[house_id |-> 1, house_name |-> SeedName]}
       /\ \E M \in {{"u1"}, {"u1", "u2"}} :
            user_houses = [k \in Keys |-> IF k[2] = 1 /\ k[1] \in M THEN 1 ELSE 0]
       /\ \E T \in {{}, {"u1"}} :
            tasks = [k \in Keys |-> IF k[2] = 1 /\ k[1] \in T THEN 1 ELSE 0]
       /\ \E R \in {{}, {"u1"}} :
            restrictions = [k \in Keys |-> IF k[2] = 1 /\ k[1] \in R THEN 1 ELSE 0]
       /\ house_id_seq = 2

InitPool ==
    /\ maxconn \in 1..MaxConn
    /\ used = {}
    /\ tx = [c \in Conns |-> NoTx]
    /\ wk = [w \in Workers |-> IdleWorker]
    /\ nreq = 0

Init ==
    /\ InitStore
    /\ InitPool
    /\ nIn = << >>
    /\ nOut = << >>
    /\ nDone = FALSE

\* ------------------------------------------------------- request handlers
\* Which requests may overlap.  "any": the workers serve requests
\* concurrently.  "seq": one request at a time.  "noleave": concurrently,
\* except that two leave-house requests for one house never overlap.
MayStart(mode, w, route, h) ==
    CASE mode = "seq" -> \A v \in Workers \ {w} : wk[v].status = "idle"
      [] mode = "noleave" ->
            route = "leave_house_route" =>
                \A v \in Workers \ {w} :
                    ~(/\ wk[v].status = "running"
                      /\ wk[v].route = "leave_house_route"
                      /\ wk[v].house_id = h)
      [] OTHER -> TRUE

\* A request goes to the first free worker.
Free(w) ==
    /\ wk[w].status = "idle"
    /\ \A v \in Workers : wk[v].status = "idle" => WorkerNo[w] <= WorkerNo[v]
    /\ nreq < MaxRequests

\* The house ids a request can name: those the store has handed out.
KnownHouses == 1..(house_id_seq - 1)

\* A worker entering a handler whose first call is data-access operation op.
Enter(w, route, rpc, op, u, h, name) ==
    /\ Free(w)
    /\ nreq' = nreq + 1
    /\ wk' = [wk EXCEPT ![w] =
                [IdleWorker EXCEPT !.status = "running", !.route = route,
                                   !.rpc = rpc, !.op = op, !.opc = "getconn",
                                   !.user_id = u, !.house_id = h,
                                   !.house_name = name, !.old = Snap]]
    /\ UNCHANGED << db, house_id_seq, maxconn, used, tx, normVars >>

\* POST /user/home: strip the submitted name, turn away a blank or too long
\* one, else look the name up (and create the house if it is not found).
user_home(mode, w, u, name) ==
    /\ MayStart(mode, w, "user_home", 0)
    /\ LET house_name == strip(name) IN
       IF house_name = << >> \/ Len(house_name) > NameLimit
       THEN /\ Free(w)
            /\ nreq' = nreq + 1
            /\ wk' = [wk EXCEPT ![w] =
                        [IdleWorker EXCEPT !.status = "return",
                                           !.route = "user_home",
                                           !.user_id = u,
                                           !.house_name = house_name]]
            /\ UNCHANGED << db, house_id_seq, maxconn, used, tx, normVars >>
       ELSE Enter(w, "user_home", 134, "check_house_exists", u, 0, house_name)

\* POST /join-house.
join_house(mode, w, u, h) ==
    /\ MayStart(mode, w, "join_house", h)
    /\ Enter(w, "join_house", 148, "add_user_house", u, h, << >>)

\* POST /leave-house: the first call is is_last_member.
leave_house_route(mode, w, u, h) ==
    /\ MayStart(mode, w, "leave_house_route", h)
    /\ Enter(w, "leave_house_route", 159, "is_last_member", u, h, << >>)

\* POST /assign-task/<house_id>, u the person the form names.
assign_task(mode, w, u, h) ==
    /\ MayStart(mode, w, "assign_task", h)
    /\ Enter(w, "assign_task", 245, "insert_task", u, h, << >>)

\* POST /restrictions/<house_id>.
restrictions_route(mode, w, u, h) ==
    /\ MayStart(mode, w, "restrictions", h)
    /\ Enter(w, "restrictions", 299, "insert_restrictions", u, h, << >>)

\* The handler after the data-access call at r.rpc returned: the next call
\* it makes, or its response.
Call(r, rpc, op) == [r EXCEPT !.rpc = rpc, !.op = op, !.opc = "getconn"]
Response(r) == [r EXCEPT !.status = "return", !.rpc = 0, !.op = "none",
                         !.opc = "none"]

Continue(r) ==
    CASE r.rpc = 134 -> IF ~r.ret THEN Call(r, 135, "create_house") ELSE Response(r)
      [] r.rpc = 159 -> IF r.ret THEN Call(r, 160, "delete_tasks_by_house")
                        ELSE Call(r, 163, "leave_house")
      [] r.rpc = 160 -> Call(r, 161, "delete_restrictions_by_house")
      [] r.rpc = 161 -> Call(r, 163, "leave_house")
      [] r.rpc = 163 -> Call(r, 165, "is_last_member")
      [] r.rpc = 165 -> IF r.ret THEN Call(r, 166, "delete_house") ELSE Response(r)
      [] OTHER -> Response(r)

\* ------------------------------------------------ connections and cursors
\* Whether get_db_cursor is entered with commit=True by the operation.
Commits(op) == op \notin {"check_house_exists", "is_last_member"}

\* The first statement of an operation's with-block.
FirstStatement(op) ==
    CASE op = "create_house" -> "insert_house"
      [] op = "leave_house" -> "delete_member"
      [] OTHER -> "execute"

\* A get_db_connection without the finally: an exception skips putconn.
LeakedOnRaise(c, raised) == IF raised THEN used ELSE used \ {c}

\* pool.putconn(connection) in the finally of get_db_connection, reached on a
\* normal exit and on an exception alike: the connection leaves the used set.
Released(c, raised) == used \ {c}

\* A pool that returns the connection with its transaction still open.
KeptPending(c) == tx

\* pool.putconn rolls back the transaction the connection still has open.
RolledBack(c) == [tx EXCEPT ![c] = NoTx]

\* get_db_connection: pool.getconn() hands out the first free connection; with every
\* connection out it raises, and so does the finally (connection is unbound):
\* the request fails where it stands, having taken nothing.
get_db_connection(w) ==
    /\ wk[w].status = "running"
    /\ wk[w].opc = "getconn"
    /\ \/ \E c \in (1..maxconn) \ used :
            /\ \A d \in (1..maxconn) \ used : c <= d
            /\ used' = used \cup {c}
            /\ wk' = [wk EXCEPT ![w].conn = c,
                                ![w].opc = FirstStatement(wk[w].op)]
       \/ /\ Cardinality(used) = maxconn
          /\ used' = used
          /\ wk' = [wk EXCEPT ![w].status = "failed"]
    /\ UNCHANGED << db, house_id_seq, maxconn, tx, nreq, normVars >>

\* The worker w is at statement pc of operation op, holding a connection.
At(w, op, pc) ==
    /\ wk[w].status = "running"
    /\ wk[w].op = op
    /\ wk[w].opc = pc

\* A statement that only changes the pending transaction and the worker.
Step(w, newtx, neww) ==
    /\ tx' = [tx EXCEPT ![wk[w].conn] = newtx]
    /\ wk' = [wk EXCEPT ![w] = neww]
    /\ UNCHANGED << db, house_id_seq, maxconn, used, nreq, normVars >>

\* The end of get_db_cursor's with-block without an exception: commit when
\* commit=True, close the cursor, return the connection, and go on with the
\* handler.
get_db_cursor_exit(w) ==
    LET r == wk[w]
        c == r.conn
        gone == \E row \in tx[c].hd \cap houses : row.house_id = r.house_id
    IN  /\ r.status = "running"
        /\ r.opc = "exit"
        /\ IF Commits(r.op)
           THEN /\ houses' = (houses \ tx[c].hd) \cup tx[c].hi
                /\ user_houses' = Plus(user_houses, tx[c].m)
                /\ tasks' = Plus(tasks, tx[c].t)
                /\ restrictions' = Plus(restrictions, tx[c].r)
                /\ wk' = [wk EXCEPT ![w] =
                            Continue([r EXCEPT !.conn = 0,
                                               !.removed = r.removed \/ gone])]
           ELSE /\ UNCHANGED db
                /\ wk' = [wk EXCEPT ![w] = Continue([r EXCEPT !.conn = 0])]
        /\ tx' = RolledBack(c)
        /\ used' = Released(c, FALSE)
        /\ UNCHANGED << house_id_seq, maxconn, nreq, normVars >>

\* The statement about to run, or the commit, raises: the cursor is closed,
\* the connection returned, and the exception ends the request.
Raise(w) ==
    LET r == wk[w]
        c == r.conn
    IN  /\ r.status = "running"
        /\ r.opc \notin {"getconn", "none"}
        /\ tx' = RolledBack(c)
        /\ used' = Released(c, TRUE)
        /\ wk' = [wk EXCEPT ![w] =
                    [r EXCEPT !.status = "failed", !.rpc = 0, !.op = "none",
                              !.opc = "none", !.conn = 0]]
        /\ UNCHANGED << db, house_id_seq, maxconn, nreq, normVars >>

\* The response (or the error page) is sent; the worker is free again.
Respond(w) ==
    /\ wk[w].status \in {"return", "failed"}
    /\ wk' = [wk EXCEPT ![w] = IdleWorker]
    /\ UNCHANGED << db, house_id_seq, maxconn, used, tx, nreq, normVars >>

\* ------------------------------------------------ data-access operations
\* An INSERT on connection c of one more row with key k into the table whose
\* committed rows are f and whose pending writes are the field of tx: it
\* waits for another open transaction inserting the same key, and the table
\* holds at most MaxDup rows per key (beyond that the statement can only
\* raise).
CanInsert(c, f, k, field) ==
    /\ f[k] + tx[c][field][k] < MaxDup
    /\ \A d \in used \ {c} : tx[d][field][k] <= 0

\* A leave_house that tests for one row left instead of none.
OneMemberLeft(count) == count = 1

\* if count == 0 in leave_house.
NoMemberLeft(count) == count = 0

\* An is_last_member that tests for no row instead of one.
ZeroMembers(num_members) == num_members = 0

\* return num_members == 1 in is_last_member.
OneMember(num_members) == num_members = 1

\* SELECT * FROM houses WHERE house_name = %s; the handler tests the row.
check_house_exists(w) ==
    LET r == wk[w] IN
    /\ At(w, "check_house_exists", "execute")
    /\ Step(w, tx[r.conn],
            [r EXCEPT !.ret = \E row \in VisHouses(r.conn) :
                                   row.house_name = r.house_name,
                      !.opc = "exit"])

\* INSERT INTO houses ... RETURNING house_id, then INSERT INTO user_houses.
create_house(w) ==
    LET r == wk[w]
        c == r.conn
    IN  \/ /\ At(w, "create_house", "insert_house")
           /\ house_id_seq <= MaxHouseId
           /\ house_id_seq' = house_id_seq + 1
           /\ tx' = [tx EXCEPT ![c].hi =
                       @ \cup {[house_id |-> house_id_seq,
                                house_name |-> formatted_name(r.house_name)]}]
           /\ wk' = [wk EXCEPT ![w].house_id = house_id_seq,
                               ![w].opc = "insert_member"]
           /\ UNCHANGED << db, maxconn, used, nreq, normVars >>
        \/ /\ At(w, "create_house", "insert_member")
           /\ CanInsert(c, user_houses, <<r.user_id, r.house_id>>, "m")
           /\ Step(w, [tx[c] EXCEPT !.m[<<r.user_id, r.house_id>>] = @ + 1],
                   [r EXCEPT !.opc = "exit"])

\* INSERT INTO user_houses (user_id, house_id).
add_user_house(w) ==
    LET r == wk[w]
        c == r.conn
        k == <<r.user_id, r.house_id>>
    IN  /\ At(w, "add_user_house", "execute")
        /\ CanInsert(c, user_houses, k, "m")
        /\ Step(w, [tx[c] EXCEPT !.m[k] = @ + 1], [r EXCEPT !.opc = "exit"])

\* DELETE FROM user_houses for the user and house; SELECT COUNT(*) of the
\* house's rows; if none is left, DELETE FROM houses.
leave_house(w) ==
    LET r == wk[w]
        c == r.conn
        k == <<r.user_id, r.house_id>>
        count == CountMembers(c, r.house_id)
    IN  \/ /\ At(w, "leave_house", "delete_member")
           /\ ~MemberLocked(c, k)
           /\ Step(w, [tx[c] EXCEPT !.m[k] = @ - VisMembers(c, k)],
                   [r EXCEPT !.opc = "count"])
        \/ /\ At(w, "leave_house", "count")
           /\ Step(w, tx[c],
                   [r EXCEPT !.count = count,
                             !.opc = IF NoMemberLeft(count)
                                     THEN "delete_house" ELSE "exit"])
        \/ /\ At(w, "leave_house", "delete_house")
           /\ ~HouseLocked(c, r.house_id)
           /\ Step(w, [tx[c] EXCEPT !.hd =
                         @ \cup {row \in houses : row.house_id = r.house_id}],
                   [r EXCEPT !.opc = "exit"])

\* DELETE FROM tasks WHERE house_id = %s.
delete_tasks_by_house(w) ==
    LET r == wk[w]
        c == r.conn
    IN  /\ At(w, "delete_tasks_by_house", "execute")
        /\ \A u \in Users : ~TaskLocked(c, <<u, r.house_id>>)
        /\ Step(w, [tx[c] EXCEPT !.t =
                      [k \in Keys |-> IF k[2] = r.house_id
                                      THEN tx[c].t[k] - VisTasks(c, k)
                                      ELSE tx[c].t[k]]],
                [r EXCEPT !.opc = "exit"])

\* DELETE FROM restrictions WHERE house_id = %s.
delete_restrictions_by_house(w) ==
    LET r == wk[w]
        c == r.conn
    IN  /\ At(w, "delete_restrictions_by_house", "execute")
        /\ \A u \in Users : ~RestrictionLocked(c, <<u, r.house_id>>)
        /\ Step(w, [tx[c] EXCEPT !.r =
                      [k \in Keys |-> IF k[2] = r.house_id
                                      THEN tx[c].r[k] - VisRestrictions(c, k)
                                      ELSE tx[c].r[k]]],
                [r EXCEPT !.opc = "exit"])

\* SELECT COUNT(*) FROM user_houses WHERE house_id = %s; num_members == 1.
is_last_member(w) ==
    LET r == wk[w] IN
    /\ At(w, "is_last_member", "execute")
    /\ Step(w, tx[r.conn],
            [r EXCEPT !.ret = OneMember(CountMembers(r.conn, r.house_id)),
                      !.opc = "exit"])

\* DELETE FROM houses WHERE house_id = %s.
delete_house(w) ==
    LET r == wk[w]
        c == r.conn
    IN  /\ At(w, "delete_house", "execute")
        /\ ~HouseLocked(c, r.house_id)
        /\ Step(w, [tx[c] EXCEPT !.hd =
                      @ \cup {row \in houses : row.house_id = r.house_id}],
                [r EXCEPT !.opc = "exit"])

\* INSERT INTO tasks (task_name, user_id, house_id, ...).
insert_task(w) ==
    LET r == wk[w]
        c == r.conn
        k == <<r.user_id, r.house_id>>
    IN  /\ At(w, "insert_task", "execute")
        /\ CanInsert(c, tasks, k, "t")
        /\ Step(w, [tx[c] EXCEPT !.t[k] = @ + 1], [r EXCEPT !.opc = "exit"])

\* INSERT INTO restrictions (house_id, user_id, ...).
insert_restrictions(w) ==
    LET r == wk[w]
        c == r.conn
        k == <<r.user_id, r.house_id>>
    IN  /\ At(w, "insert_restrictions", "execute")
        /\ CanInsert(c, restrictions, k, "r")
        /\ Step(w, [tx[c] EXCEPT !.r[k] = @ + 1], [r EXCEPT !.opc = "exit"])

\* ------------------------------------------------------------ normalisation
\* formatted_name applied to an arbitrary input string.
InitNorm ==
    /\ houses = {}
    /\ user_houses = Zero
    /\ tasks = Zero
    /\ restrictions = Zero
    /\ house_id_seq = 1
    /\ InitPool
    /\ nIn \in Strings
    /\ nOut = << >>
    /\ nDone = FALSE

Normalize ==
    /\ ~nDone
    /\ nOut' = formatted_name(nIn)
    /\ nDone' = TRUE
    /\ UNCHANGED << db, house_id_seq, maxconn, used, tx, wk, nreq, nIn >>

\* ------------------------------------------------------------ specifications
Requests(mode) ==
    \E w \in Workers, u \in Users :
        \/ \E name \in FormNames : user_home(mode, w, u, name)
        \/ \E h \in KnownHouses : join_house(mode, w, u, h)
        \/ \E h \in KnownHouses : leave_house_route(mode, w, u, h)
        \/ \E h \in KnownHouses : assign_task(mode, w, u, h)
        \/ \E h \in KnownHouses : restrictions_route(mode, w, u, h)

Operations ==
    \E w \in Workers :
        \/ get_db_connection(w)
        \/ check_house_exists(w)
        \/ create_house(w)
        \/ add_user_house(w)
        \/ leave_house(w)
        \/ delete_tasks_by_house(w)
        \/ delete_restrictions_by_house(w)
        \/ is_last_member(w)
        \/ delete_house(w)
        \/ insert_task(w)
        \/ insert_restrictions(w)
        \/ get_db_cursor_exit(w)
        \/ Raise(w)
        \/ Respond(w)

\* Requests served concurrently.
Next == Requests("any") \/ Operations
Spec == Init /\ [][Next]_vars

\* One request at a time.
NextSeq == Requests("seq") \/ Operations
SpecSeq == Init /\ [][NextSeq]_vars

\* Concurrent requests, no two leave-house requests for one house overlapping.
NextNoLeaveOverlap == Requests("noleave") \/ Operations
SpecNoLeaveOverlap == Init /\ [][NextNoLeaveOverlap]_vars

\* The normalisation of every string up to MaxLen.
SpecNorm == InitNorm /\ [][Normalize]_vars

\* ------------------------------------------------------------------ claims
\* A worker whose leave-house request has just completed normally.
LeftHouse(w) ==
    /\ wk[w].status = "return"
    /\ wk[w].route = "leave_house_route"

\* In the store as it was, user u was the only member of house h.
OnlyMember(old, u, h) ==
    /\ \E row \in old.houses : row.house_id = h
    /\ old.user_houses[<<u, h>>] = 1
    /\ RowsOf(old.user_houses, h) = 1

\* No row of houses, tasks or restrictions is found for house h.
NothingLeftOf(h) ==
    /\ get_house_name_by_id(h) = {}
    /\ \A row \in houses : row.house_id # h
    /\ get_tasks_by_house_id(h) = {}
    /\ get_restrictions(h) = {}

\* C1: with requests served one at a time, when the only member of a house
\* has completed a leave-house request for it, the lookups of the house find
\* no row, and its tasks and restrictions are read as empty.
C1_LastMemberLeaves ==
    \A w \in Workers :
        (LeftHouse(w) /\ OnlyMember(wk[w].old, wk[w].user_id, wk[w].house_id))
            => NothingLeftOf(wk[w].house_id)

\* C1 witness: the only member has left a house that had a task and a
\* restriction.
C1_Witness ==
    \E w \in Workers :
        /\ LeftHouse(w)
        /\ OnlyMember(wk[w].old, wk[w].user_id, wk[w].house_id)
        /\ RowsOf(wk[w].old.tasks, wk[w].house_id) > 0
        /\ RowsOf(wk[w].old.restrictions, wk[w].house_id) > 0
        /\ NothingLeftOf(wk[w].house_id)

\* C2: when the two remaining members of a house have both completed
\* leave-house requests that were issued while both were still members, no
\* house, task or restriction row of the house is left, and at most one of
\* the two requests removed the house row.
C2_ConcurrentLeave ==
    \A w \in Workers : \A v \in Workers \ {w} :
        ( /\ LeftHouse(w)
          /\ LeftHouse(v)
          /\ wk[w].house_id = wk[v].house_id
          /\ wk[w].user_id # wk[v].user_id
          /\ \A x \in {w, v} :
                /\ MembersOf(wk[x].old.user_houses, wk[x].house_id)
                       = {wk[w].user_id, wk[v].user_id}
                /\ RowsOf(wk[x].old.user_houses, wk[x].house_id) = 2
                /\ \E row \in wk[x].old.houses : row.house_id = wk[x].house_id )
        => ( /\ NothingLeftOf(wk[w].house_id)
             /\ ~(wk[w].removed /\ wk[v].removed) )

\* C3: when no two leave-house requests for one house overlap, every row of
\* houses has at least one row of user_houses with its house_id, in every
\* committed state.
C3_NoEmptyHouse ==
    \A row \in houses : RowsOf(user_houses, row.house_id) >= 1

\* C3 witness: between the transactions of a leave-house request whose
\* leave_house has removed the house row, with another request in progress.
C3_Witness ==
    \E w \in Workers : \E v \in Workers \ {w} :
        /\ wk[w].status = "running"
        /\ wk[w].route = "leave_house_route"
        /\ wk[w].rpc = 165
        /\ wk[w].removed
        /\ wk[v].status = "running"
        /\ wk[v].conn # 0

\* C4: no two rows of houses have the same normalized name, and a completed
\* house-creation request whose normalized name matched an existing house
\* has created nothing.
C4_UniqueNames ==
    /\ \A r1 \in houses, r2 \in houses :
            formatted_name(r1.house_name) = formatted_name(r2.house_name)
                => r1 = r2
    /\ \A w \in Workers :
            ( /\ wk[w].status = "return"
              /\ wk[w].route = "user_home"
              /\ \E row \in wk[w].old.houses :
                    formatted_name(row.house_name) = formatted_name(wk[w].house_name) )
            => houses = wk[w].old.houses

\* Two adjacent spaces in s.
DoubleSpace(s) == \E i \in 1..(Len(s) - 1) : s[i] = " " /\ s[i + 1] = " "

\* C5: the name create_house stores has no two consecutive spaces, no
\* leading and no trailing space, and normalising it again changes nothing.
C5_Normalized ==
    nDone =>
        /\ ~DoubleSpace(nOut)
        /\ nOut # << >> => (nOut[1] # " " /\ nOut[Len(nOut)] # " ")
        /\ formatted_name(nOut) = nOut

\* C5 witness: an input with surrounding whitespace and a run of two inner
\* spaces has been normalised.
C5_Witness ==
    /\ nDone
    /\ nIn = <<" ", "a", " ", " ", "a">> \/ nIn = <<"a", " ", " ", "a">>
    /\ nOut = <<"a", " ", "a">>

\* C6: the connections checked out are exactly those held by the operations
\* in progress, one each; none is out when no operation is in progress, and
\* never more than the pool's maximum.
C6_PoolBalanced ==
    /\ \A w \in Workers :
          wk[w].conn # 0 <=>
              (wk[w].status = "running" /\ wk[w].opc \notin {"getconn", "none"})
    /\ used = {wk[w].conn : w \in {x \in Workers : wk[x].conn # 0}}
    /\ \A w \in Workers : \A v \in Workers \ {w} :
          wk[w].conn # 0 => wk[w].conn # wk[v].conn
    /\ Cardinality(used) <= maxconn
    /\ (\A w \in Workers : wk[w].status # "running") => used = {}

\* C6 witness: one request has failed inside create_house after its house
\* insert, another found the pool exhausted in getconn, and no connection is
\* out.
C6_Witness ==
    /\ used = {}
    /\ \A w \in Workers : wk[w].status = "failed"
    /\ \E w \in Workers :
          wk[w].route = "user_home" /\ wk[w].op = "none" /\ wk[w].house_id # 0
    /\ \E w \in Workers : wk[w].opc = "getconn"

\* The step in which worker w's create_house call ends.
CreateHouseEnds(w) ==
    /\ wk[w].status = "running"
    /\ wk[w].op = "create_house"
    /\ (wk'[w].status # "running" \/ wk'[w].op # "create_house")

\* C7: a create_house call ends either by making its house row and the
\* creator's membership row visible in one step and returning, or by failing
\* the request with no row changed; and a house row only ever becomes
\* visible in the committing step of the call that inserted it.
C7_CreateHouseAtomic ==
    [][ /\ \A w \in Workers :
              CreateHouseEnds(w) =>
                  \/ /\ wk[w].opc = "exit"
                     /\ wk'[w].status = "return"
                     /\ houses' = houses \cup
                            {[house_id |-> wk[w].house_id,
                              house_name |-> formatted_name(wk[w].house_name)]}
                     /\ user_houses' =
                            [user_houses EXCEPT
                                ![<<wk[w].user_id, wk[w].house_id>>] = @ + 1]
                  \/ /\ wk'[w].status = "failed"
                     /\ houses' = houses
                     /\ user_houses' = user_houses
        /\ \A row \in houses' \ houses :
              \E w \in Workers :
                  /\ CreateHouseEnds(w)
                  /\ wk[w].opc = "exit"
                  /\ wk'[w].status = "return"
                  /\ row.house_id = wk[w].house_id ]_vars

\* C7 witness: with a pool of one connection, a create_house failed after
\* its house insert, a later join of that house id ran on the same
\* connection and committed, and no row of the house is visible.
C7_Witness ==
    /\ maxconn = 1
    /\ \E w \in Workers : \E v \in Workers \ {w} :
          /\ wk[w].status = "failed"
          /\ wk[w].route = "user_home"
          /\ wk[w].house_id # 0
          /\ wk[v].status = "return"
          /\ wk[v].route = "join_house"
          /\ wk[v].house_id = wk[w].house_id
          /\ user_houses[<<wk[v].user_id, wk[v].house_id>>] = 1
          /\ \A row \in houses : row.house_id # wk[w].house_id

\* C8: when leave_house commits having removed the last membership of a
\* house, no house, task or restriction row of that house is left.
C8_LeaveHouseCascades ==
    [][ \A w \in Workers :
          ( /\ wk[w].status = "running"
            /\ wk[w].op = "leave_house"
            /\ wk[w].opc = "exit"
            /\ wk'[w].op = "is_last_member"
            /\ tx[wk[w].conn].m[<<wk[w].user_id, wk[w].house_id>>] < 0
            /\ wk[w].count = 0 )
          => /\ \A row \in houses' : row.house_id # wk[w].house_id
             /\ \A k \in Keys :
                   k[2] = wk[w].house_id => (tasks'[k] = 0 /\ restrictions'[k] = 0)
      ]_vars

\* C9: when a member of a house has completed a leave-house request for it,
\* no task row has that user and that house.
C9_LeaverTasksDeleted ==
    \A w \in Workers :
        (LeftHouse(w) /\ wk[w].old.user_houses[<<wk[w].user_id, wk[w].house_id>>] > 0)
            => tasks[<<wk[w].user_id, wk[w].house_id>>] = 0

\* C10: with requests served one at a time, when a member of a house with two
\* or more members has completed a leave-house request, only that user's
\* membership row is gone: houses, tasks, restrictions and the other
\* membership rows are as before.
C10_LeaveFrame ==
    \A w \in Workers :
        ( /\ LeftHouse(w)
          /\ wk[w].old.user_houses[<<wk[w].user_id, wk[w].house_id>>] > 0
          /\ Cardinality(MembersOf(wk[w].old.user_houses, wk[w].house_id)) >= 2 )
        => /\ houses = wk[w].old.houses
           /\ user_houses =
                [wk[w].old.user_houses EXCEPT ![<<wk[w].user_id, wk[w].house_id>>] = 0]
           /\ tasks = wk[w].old.tasks
           /\ restrictions = wk[w].old.restrictions

\* C11: with requests served one at a time, when a user with no membership
\* row for a house has completed a leave-house request for it, houses,
\* user_houses, tasks and restrictions are all as they were before the
\* request, whatever the number of members of the house.
C11_NonMemberLeaveFrame ==
    \A w \in Workers :
        ( /\ LeftHouse(w)
          /\ wk[w].old.user_houses[<<wk[w].user_id, wk[w].house_id>>] = 0 )
        => /\ houses = wk[w].old.houses
           /\ user_houses = wk[w].old.user_houses
           /\ tasks = wk[w].old.tasks
           /\ restrictions = wk[w].old.restrictions

====
